---- MODULE Spec2Model ----
(***************************************************************************)
(* A model of src/src/app.py: the SimpleMCPClient session wrapper          *)
(* (connect / get_weather), the response normalisation inside              *)
(* _get_weather, the process-wide asyncio event loop and the three event   *)
(* listeners the display layer dispatches from worker threads.             *)
(*                                                                         *)
(* Text conventions.  A location is a sequence of one-character strings,   *)
(* so that strip() and split(',', 1) are computed character by character.  *)
(* Every other text (tool names, server payloads, returned messages) is a  *)
(* TLA+ string, joined with \o.  The module is ASCII only: the source's    *)
(* pictographs are written "[X] " (cross mark), "[OK] " (check mark),      *)
(* "[globe] ", "[temp] ", "[sky] ", "[wind] ", "[drop] ", "[clock] " and   *)
(* "[time] "; the degree sign is written "deg"; a Markdown code fence      *)
(* (three backticks) is written "~~~".                                     *)
(***************************************************************************)
EXTENDS Integers, Sequences, FiniteSets, TLC

VARIABLES
    connected,   \* SimpleMCPClient.connected
    exit_stack,  \* SimpleMCPClient.exit_stack: [id, items]; id 0 is None
    session,     \* SimpleMCPClient.session: id of the stack it was entered on; 0 is None
    tools,       \* SimpleMCPClient.tools
    loopOwner,   \* the handler whose coroutine the event loop is running, or NoOwner
    pc,          \* each event listener's position in its handler
    call,        \* each event listener's current invocation (argument, result, history)
    nStacks,     \* how many AsyncExitStack objects have been created
    opened,      \* history: the contexts <<stack id, kind>> that were entered
    relCount,    \* history: how often each context's exit was invoked
    listed,      \* history: [id, tools] of the last successful list_tools
    nz,          \* the normaliser on its own: [phase, result, text, out]
    lp           \* the location parser on its own: [phase, location, params]

vars == <<connected, exit_stack, session, tools, loopOwner, pc, call,
          nStacks, opened, relCount, listed, nz, lp>>

(***************************************************************************)
(* Bounds.                                                                 *)
(***************************************************************************)
MaxLocLen == 4
MaxEventLocLen == 1
MaxConnects == 3

(***************************************************************************)
(* Locations: str.strip() and str.split(',', 1).                           *)
(***************************************************************************)
Chars == {"a", " ", ","}

RECURSIVE SeqsUpTo(_)
SeqsUpTo(n) ==
    IF n = 0 THEN {<<>>}
    ELSE LET shorter == SeqsUpTo(n - 1)
         IN  shorter \cup {Append(s, c) : s \in {x \in shorter : Len(x) = n - 1}, c \in Chars}

Locations == SeqsUpTo(MaxLocLen)

\* the locations the event listeners submit in the session life cycle
EventLocations == SeqsUpTo(MaxEventLocLen)

IsSpace(c) == c = " "

RECURSIVE lstrip(_)
lstrip(s) ==
    IF s = <<>> THEN s
    ELSE IF IsSpace(Head(s)) THEN lstrip(Tail(s)) ELSE s

RECURSIVE rstrip(_)
rstrip(s) ==
    IF s = <<>> THEN s
    ELSE IF IsSpace(s[Len(s)]) THEN rstrip(SubSeq(s, 1, Len(s) - 1)) ELSE s

\* a slip: the location is tested as it was typed
NoStrip(s) == s

strip(s) == rstrip(lstrip(s))

HasComma(s) == \E i \in 1..Len(s) : s[i] = ","

RECURSIVE FindComma(_, _)
FindComma(s, i) ==
    IF i > Len(s) THEN 0
    ELSE IF s[i] = "," THEN i ELSE FindComma(s, i + 1)

\* a slip: location.rsplit(',', 1), the split at the last comma
SplitLast(s) ==
    LET i == CHOOSE j \in 1..Len(s) : s[j] = "," /\ \A k \in (j + 1)..Len(s) : s[k] # ","
    IN  <<SubSeq(s, 1, i - 1), SubSeq(s, i + 1, Len(s))>>

\* location.split(',', 1) for a location that holds a comma
Split1(s) ==
    LET i == FindComma(s, 1)
    IN  <<SubSeq(s, 1, i - 1), SubSeq(s, i + 1, Len(s))>>

ParseLocation(location) ==
    IF HasComma(location)
    THEN LET parts == Split1(location)
         IN  [city |-> strip(parts[1]), country |-> strip(parts[2])]
    ELSE [city |-> strip(location), country |-> <<>>]

(***************************************************************************)
(* JSON values as json.loads builds them: [t, s, d].  t is the Python type *)
(* ("dict", "list", "str", "num", "null"), s a scalar's JSON literal       *)
(* without quotes, d the ordered members <<[k, v], ...>> of a dict or list *)
(* (k is "" in a list).                                                    *)
(***************************************************************************)
JStr(s) == [t |-> "str", s |-> s, d |-> <<>>]
JNum(s) == [t |-> "num", s |-> s, d |-> <<>>]
JNull == [t |-> "null", s |-> "null", d |-> <<>>]
JDict(members) == [t |-> "dict", s |-> "", d |-> members]
JList(members) == [t |-> "list", s |-> "", d |-> members]
KV(k, v) == [k |-> k, v |-> v]
JSONDecodeError == [t |-> "JSONDecodeError", s |-> "", d |-> <<>>]

LegacyKey == "temperature (degC)"

\* json.loads on the texts of the model: the JSON texts below; every other
\* concatenation of Fragments raises JSONDecodeError
json_loads(text) ==
    CASE text = "{\"error\": \"rate limited\"}" ->
           JDict(<<KV("error", JStr("rate limited"))>>)
      [] text = "{\"error\": null}" ->
           JDict(<<KV("error", JNull)>>)
      [] text = "{\"error\": \"rate limited\", \"current_weather\": {\"temperature_celsius\": 20}}" ->
           JDict(<<KV("error", JStr("rate limited")),
                   KV("current_weather", JDict(<<KV("temperature_celsius", JNum("20"))>>))>>)
      [] text = "{\"current_weather\": {\"temperature_celsius\": 20}}" ->
           JDict(<<KV("current_weather", JDict(<<KV("temperature_celsius", JNum("20"))>>))>>)
      [] text = "{\"location\": \"Berlin\", \"current_weather\": {\"weather_description\": \"clear\", \"wind_speed_kmh\": 9, \"humidity_percent\": 40}}" ->
           JDict(<<KV("location", JStr("Berlin")),
                   KV("current_weather", JDict(<<KV("weather_description", JStr("clear")),
                                                 KV("wind_speed_kmh", JNum("9")),
                                                 KV("humidity_percent", JNum("40"))>>))>>)
      [] text = "{\"current_weather\": 5}" ->
           JDict(<<KV("current_weather", JNum("5"))>>)
      [] text = "{\"current_weather\": {}, \"temperature (degC)\": 21}" ->
           JDict(<<KV("current_weather", JDict(<<>>)), KV(LegacyKey, JNum("21"))>>)
      [] text = "{\"temperature (degC)\": 21, \"weather_code\": 3}" ->
           JDict(<<KV(LegacyKey, JNum("21")), KV("weather_code", JNum("3"))>>)
      [] text = "{\"location\": \"Berlin\", \"temperature (degC)\": 21, \"timezone\": \"CET\", \"local_time\": \"noon\"}" ->
           JDict(<<KV("location", JStr("Berlin")), KV(LegacyKey, JNum("21")),
                   KV("timezone", JStr("CET")), KV("local_time", JStr("noon"))>>)
      [] text = "{\"location\": \"Berlin\"}" ->
           JDict(<<KV("location", JStr("Berlin"))>>)
      [] text = "{\"location\": {\"city\": \"Berlin\"}}" ->
           JDict(<<KV("location", JDict(<<KV("city", JStr("Berlin"))>>))>>)
      [] text = "{}" -> JDict(<<>>)
      [] text = "[1, 2]" -> JList(<<KV("", JNum("1")), KV("", JNum("2"))>>)
      [] text = "-1" -> JNum("-1")
      [] text = "null" -> JNull
      [] text = "\"error\"" -> JStr("error")
      [] OTHER -> JSONDecodeError

\* str(value), as an f-string renders a parsed scalar
PyStr(v) ==
    CASE v.t = "null" -> "None"
      [] OTHER -> v.s

HasKey(parsed, key) == \E i \in 1..Len(parsed.d) : parsed.d[i].k = key

\* parsed[key] for a key the dict holds
Item(parsed, key) ==
    parsed.d[CHOOSE i \in 1..Len(parsed.d) : parsed.d[i].k = key].v

\* f"{parsed.get(key, default)}"
GetStr(parsed, key, default) ==
    IF HasKey(parsed, key) THEN PyStr(Item(parsed, key)) ELSE default

\* json.dumps(value, indent=2); ind is the indentation of the enclosing line
RECURSIVE Dumps(_, _)
RECURSIVE DumpMembers(_, _, _)
DumpMembers(v, ind, i) ==
    LET m == v.d[i]
        key == IF v.t = "dict" THEN "\"" \o m.k \o "\": " ELSE ""
        line == ind \o "  " \o key \o Dumps(m.v, ind \o "  ")
    IN  IF i = Len(v.d) THEN line \o "\n"
        ELSE line \o ",\n" \o DumpMembers(v, ind, i + 1)

Dumps(v, ind) ==
    CASE v.t = "str" -> "\"" \o v.s \o "\""
      [] v.t \in {"num", "null"} -> v.s
      [] v.t = "dict" ->
           IF v.d = <<>> THEN "{}" ELSE "{\n" \o DumpMembers(v, ind, 1) \o ind \o "}"
      [] v.t = "list" ->
           IF v.d = <<>> THEN "[]" ELSE "[\n" \o DumpMembers(v, ind, 1) \o ind \o "]"

json_dumps(parsed) == Dumps(parsed, "")

(***************************************************************************)
(* Tool results.  A result is [shape, items, val]:                         *)
(*   "none"  no content attribute, or content None;                        *)
(*   "list"  content is a list of items (the empty list is falsy);         *)
(*   "text"  content is one object with a text attribute, val;             *)
(*   "other" content is any other truthy value, val its str().             *)
(* A list item is [attr, val]: attr "text" (val is item.text), "content"   *)
(* (val is str(item.content)) or "neither" (val is str(item)).             *)
(***************************************************************************)
MaxItems == 2

JsonTexts ==
    { "{\"error\": \"rate limited\"}",
      "{\"error\": null}",
      "{\"error\": \"rate limited\", \"current_weather\": {\"temperature_celsius\": 20}}",
      "{\"current_weather\": {\"temperature_celsius\": 20}}",
      "{\"location\": \"Berlin\", \"current_weather\": {\"weather_description\": \"clear\", \"wind_speed_kmh\": 9, \"humidity_percent\": 40}}",
      "{\"current_weather\": 5}",
      "{\"current_weather\": {}, \"temperature (degC)\": 21}",
      "{\"temperature (degC)\": 21, \"weather_code\": 3}",
      "{\"location\": \"Berlin\", \"temperature (degC)\": 21, \"timezone\": \"CET\", \"local_time\": \"noon\"}",
      "{\"location\": \"Berlin\"}",
      "{\"location\": {\"city\": \"Berlin\"}}",
      "[1, 2]", "-1", "null", "\"error\"" }

\* the texts an item or a content object carries; no concatenation of them
\* is JSON except a JSON text alone and "{" followed by "}"
Fragments == JsonTexts \cup {"", "{", "}", "plain text result"}

ItemAttrs == {"text", "content", "neither"}

ItemValues(attr) == IF attr = "neither" THEN {"<item>"} ELSE Fragments

Items == UNION {{[attr |-> a, val |-> v] : v \in ItemValues(a)} : a \in ItemAttrs}

RECURSIVE ItemSeqs(_)
ItemSeqs(n) ==
    IF n = 0 THEN {<<>>}
    ELSE LET shorter == ItemSeqs(n - 1)
         IN  shorter \cup {Append(s, it) : s \in {x \in shorter : Len(x) = n - 1}, it \in Items}

Results ==
    {[shape |-> "none", items |-> <<>>, val |-> ""]}
    \cup {[shape |-> "list", items |-> s, val |-> ""] : s \in ItemSeqs(MaxItems)}
    \cup {[shape |-> "text", items |-> <<>>, val |-> f] : f \in Fragments}
    \cup {[shape |-> "other", items |-> <<>>, val |-> f] : f \in Fragments \ {""}}

\* the loop of lines 86-92
RECURSIVE ConcatItems(_)
ConcatItems(items) ==
    IF items = <<>> THEN ""
    ELSE Head(items).val \o ConcatItems(Tail(items))

\* lines 83-96
ExtractContent(result) ==
    CASE result.shape = "none" -> ""
      [] result.shape = "list" -> ConcatItems(result.items)
      [] result.shape = "text" -> result.val
      [] result.shape = "other" -> result.val

NoContentMsg == "[X] No content received from server"
ErrorMsg(value) == "[X] Error: " \o value
FailedMsg(e) == "[X] Failed to get weather: " \o e
JsonBlock(dump) == "[OK] Weather data:\n~~~json\n" \o dump \o "\n~~~"
PlainBlock(text) == "[OK] Weather data:\n~~~\n" \o text \o "\n~~~"
RawResult(text) == "[OK] Raw result:\n" \o text

\* weather.get(...) on a value that is no dict
NoGetAttr(v) ==
    "'" \o (CASE v.t = "num" -> "int" [] v.t = "str" -> "str"
              [] v.t = "null" -> "NoneType" [] v.t = "list" -> "list" [] OTHER -> "dict")
        \o "' object has no attribute 'get'"

\* lines 110-116
WeatherSummary(parsed) ==
    LET weather == Item(parsed, "current_weather")
    IN  IF weather.t # "dict" THEN FailedMsg(NoGetAttr(weather))
        ELSE "[globe] **" \o GetStr(parsed, "location", "Unknown") \o "**\n\n"
             \o "[temp] Temperature: " \o GetStr(weather, "temperature_celsius", "N/A") \o "degC\n"
             \o "[sky] Conditions: " \o GetStr(weather, "weather_description", "N/A") \o "\n"
             \o "[wind] Wind: " \o GetStr(weather, "wind_speed_kmh", "N/A") \o " km/h\n"
             \o "[drop] Humidity: " \o GetStr(weather, "humidity_percent", "N/A") \o "%\n"

\* lines 119-124
LegacySummary(parsed) ==
    "[globe] **" \o GetStr(parsed, "location", "Unknown") \o "**\n\n"
    \o "[temp] Temperature: " \o GetStr(parsed, LegacyKey, "N/A") \o "degC\n"
    \o "[sky] Weather Code: " \o GetStr(parsed, "weather_code", "N/A") \o "\n"
    \o "[clock] Timezone: " \o GetStr(parsed, "timezone", "N/A") \o "\n"
    \o "[time] Local Time: " \o GetStr(parsed, "local_time", "N/A") \o "\n"

\* a slip: the weather branch is tried before the error branch
FormatDictWeatherFirst(parsed) ==
    IF HasKey(parsed, "current_weather") THEN WeatherSummary(parsed)
    ELSE IF HasKey(parsed, "error") THEN ErrorMsg(PyStr(Item(parsed, "error")))
    ELSE IF HasKey(parsed, LegacyKey) THEN LegacySummary(parsed)
    ELSE JsonBlock(json_dumps(parsed))

\* lines 104-126, for a parsed dict
FormatDict(parsed) ==
    IF HasKey(parsed, "error") THEN ErrorMsg(PyStr(Item(parsed, "error")))
    ELSE IF HasKey(parsed, "current_weather") THEN WeatherSummary(parsed)
    ELSE IF HasKey(parsed, LegacyKey) THEN LegacySummary(parsed)
    ELSE JsonBlock(json_dumps(parsed))

\* lines 98-132
FormatContent(content_text) ==
    IF content_text = "" THEN NoContentMsg
    ELSE LET parsed == json_loads(content_text)
         IN  IF parsed = JSONDecodeError THEN PlainBlock(content_text)
             ELSE IF parsed.t = "dict" THEN FormatDict(parsed)
             ELSE RawResult(content_text)

\* lines 82-132: what _get_weather returns for a tool result
Normalize(result) == FormatContent(ExtractContent(result))

(***************************************************************************)
(* Tool descriptors and the tool lists the model's server advertises.      *)
(* NamelessTool is a malformed descriptor: reading its name raises.        *)
(***************************************************************************)
Tool(name) == [has_name |-> TRUE, name |-> name]
NamelessTool == [has_name |-> FALSE, name |-> ""]

ToolLists ==
    { <<>>,
      <<Tool("echo")>>,
      <<Tool("echo"), Tool("Weather_Now")>>,
      <<Tool("Weather_Now"), Tool("get_weather")>>,
      <<NamelessTool>> }

\* name.lower() on the names above
Lower(name) ==
    CASE name = "Weather_Now" -> "weather_now"
      [] OTHER -> name

\* 'weather' in name.lower()
IsWeatherName(name) == Lower(name) \in {"get_weather", "weather_now"}

\* ', '.join(names)
RECURSIVE JoinNames(_)
JoinNames(ts) ==
    IF ts = <<>> THEN ""
    ELSE IF Len(ts) = 1 THEN ts[1].name
    ELSE ts[1].name \o ", " \o JoinNames(Tail(ts))

\* line 74: the generator reads tool.name in order and stops at the first
\* match; [raised, found, name]
RECURSIVE FindWeatherTool(_)
FindWeatherTool(ts) ==
    IF ts = <<>> THEN [raised |-> FALSE, found |-> FALSE, name |-> ""]
    ELSE IF ~Head(ts).has_name THEN [raised |-> TRUE, found |-> FALSE, name |-> ""]
    ELSE IF IsWeatherName(Head(ts).name)
         THEN [raised |-> FALSE, found |-> TRUE, name |-> Head(ts).name]
    ELSE FindWeatherTool(Tail(ts))

(***************************************************************************)
(* Messages.  A handler's outcome is [raised, text]: a returned string, or *)
(* an exception that leaves the handler.                                   *)
(***************************************************************************)
Returned(text) == [raised |-> FALSE, text |-> text]
Raised(text) == [raised |-> TRUE, text |-> text]
NoRet == [raised |-> FALSE, text |-> ""]

NotConnectedMsg == "[X] Not connected to server. Click Connect first."
EmptyInputMsg == "[X] Please enter a location (e.g., 'Berlin, Germany')"
ToolNotFoundMsg == "[X] Weather tool not found on server"
ConnectedMsg(ts) == "[OK] Connected to weather server!\nAvailable tools: " \o JoinNames(ts)
ConnectionFailedMsg(e) == "[X] Connection failed: " \o e
LoopRunningError == "RuntimeError: This event loop is already running"
NoNameAttr == "'Tool' object has no attribute 'name'"

ConnectSteps == {"close", "sse", "session", "initialize", "list_tools", "names"}

\* str(e) of the exception a step of _connect raises
ErrText(step) ==
    CASE step = "close" -> "release failed"
      [] step = "sse" -> "transport error"
      [] step = "session" -> "session error"
      [] step = "initialize" -> "initialize failed"
      [] step = "list_tools" -> "list_tools failed"
      [] step = "names" -> NoNameAttr

(***************************************************************************)
(* The display layer's event listeners (lines 189-204) and the event loop  *)
(* (lines 8-9).  Each listener runs its handler on a worker thread.        *)
(***************************************************************************)
Handlers == {"connect_btn", "weather_btn", "location_submit"}
ConnectHandlers == {"connect_btn"}
WeatherHandlers == {"weather_btn", "location_submit"}
NoOwner == "none"

NoParams == [city |-> <<>>, country |-> <<>>]

\* a location str.strip() leaves nothing of
IsBlank(location) == \A i \in 1..Len(location) : IsSpace(location[i])

IdleCall ==
    [location |-> <<>>, blank |-> FALSE, ret |-> NoRet, connAtCall |-> FALSE,
     failed |-> "none", io |-> FALSE, tool |-> "", params |-> NoParams]

NoStack == [id |-> 0, items |-> <<>>]
Kinds == {"transport", "session"}
Contexts == (1..MaxConnects) \X Kinds

NoResult == [shape |-> "none", items |-> <<>>, val |-> ""]
NzOff == [phase |-> "off", result |-> NoResult, text |-> "", out |-> ""]

LpOff == [phase |-> "off", location |-> <<>>, params |-> NoParams]

\* the results the server sends in the session life cycle
ServerResults ==
    { NoResult,
      [shape |-> "text", items |-> <<>>, val |-> "{\"error\": \"rate limited\"}"],
      [shape |-> "list", items |-> <<[attr |-> "text", val |-> "{\"current_weather\": {\"temperature_celsius\": 20}}"]>>, val |-> ""],
      [shape |-> "other", items |-> <<>>, val |-> "plain text result"] }

\* lines 12-17, and the loop of line 8 not running
LifecycleInit ==
    /\ connected = FALSE
    /\ exit_stack = NoStack
    /\ session = 0
    /\ tools = <<>>
    /\ loopOwner = NoOwner
    /\ pc = [h \in Handlers |-> "idle"]
    /\ call = [h \in Handlers |-> IdleCall]
    /\ nStacks = 0
    /\ opened = {}
    /\ relCount = [c \in Contexts |-> 0]
    /\ listed = [id |-> 0, tools |-> <<>>]

Init ==
    /\ LifecycleInit
    /\ nz = NzOff
    /\ lp = LpOff

history == <<nStacks, opened, relCount, listed>>
client == <<connected, exit_stack, session, tools>>

\* loop.is_running(), as run_until_complete checks it
LoopRunning == loopOwner # NoOwner

\* the handler ends: its outcome goes to the display layer
Finish(h, outcome) ==
    /\ pc' = [pc EXCEPT ![h] = "returned"]
    /\ call' = [call EXCEPT ![h].ret = outcome, ![h].location = <<>>]

\* a slip: the handler of line 50 reports the failure and leaves the flag
ConnectFailedKeepsFlag(h, step) ==
    /\ connected' = connected
    /\ pc' = [pc EXCEPT ![h] = "returned"]
    /\ call' = [call EXCEPT ![h].ret = Returned(ConnectionFailedMsg(ErrText(step))),
                            ![h].failed = step,
                            ![h].io = TRUE]
    /\ loopOwner' = NoOwner

\* lines 50-52, run_until_complete returning the coroutine's value
ConnectFailed(h, step) ==
    /\ connected' = FALSE
    /\ pc' = [pc EXCEPT ![h] = "returned"]
    /\ call' = [call EXCEPT ![h].ret = Returned(ConnectionFailedMsg(ErrText(step))),
                            ![h].failed = step,
                            ![h].io = TRUE]
    /\ loopOwner' = NoOwner

\* lines 19-21: connect() hands _connect() to the loop
ConnectCall(h) ==
    /\ h \in ConnectHandlers
    /\ pc[h] = "idle"
    /\ nStacks < MaxConnects
    /\ IF LoopRunning
       THEN /\ Finish(h, Raised(LoopRunningError))
            /\ UNCHANGED loopOwner
       ELSE /\ pc' = [pc EXCEPT ![h] = "c_close"]
            /\ call' = [call EXCEPT ![h].connAtCall = connected]
            /\ loopOwner' = h
    /\ UNCHANGED <<client, history, nz, lp>>

\* a slip: the previous stack is dropped without being closed
ReleaseNothing(stack) == relCount

\* AsyncExitStack.aclose(): every context on the stack is exited once, last
\* entered first, and the stack is left empty, whether or not an exit raises
Release(stack) ==
    [c \in Contexts |->
        IF c[1] = stack.id /\ \E i \in 1..Len(stack.items) : stack.items[i] = c[2]
        THEN relCount[c] + 1
        ELSE relCount[c]]

\* lines 25-27: an AsyncExitStack object is truthy, so aclose() runs whenever
\* exit_stack is not None; an exit may raise, which ends _connect at line 50
ConnectClose(h) ==
    /\ pc[h] = "c_close"
    /\ IF exit_stack.id = 0
       THEN /\ pc' = [pc EXCEPT ![h] = "c_newstack"]
            /\ UNCHANGED <<connected, exit_stack, relCount, call, loopOwner>>
       ELSE /\ relCount' = Release(exit_stack)
            /\ exit_stack' = [exit_stack EXCEPT !.items = <<>>]
            /\ \/ /\ pc' = [pc EXCEPT ![h] = "c_newstack"]
                  /\ call' = [call EXCEPT ![h].io = TRUE]
                  /\ UNCHANGED <<connected, loopOwner>>
               \/ /\ exit_stack.items # <<>>
                  /\ ConnectFailed(h, "close")
    /\ UNCHANGED <<session, tools, nStacks, opened, listed, nz, lp>>

\* line 29
ConnectNewStack(h) ==
    /\ pc[h] = "c_newstack"
    /\ nStacks' = nStacks + 1
    /\ exit_stack' = [id |-> nStacks + 1, items |-> <<>>]
    /\ pc' = [pc EXCEPT ![h] = "c_sse"]
    /\ UNCHANGED <<connected, session, tools, loopOwner, call, opened, relCount, listed, nz, lp>>

\* lines 32-35: the transport is entered on the stack, or entering it raises
ConnectOpenTransport(h) ==
    /\ pc[h] = "c_sse"
    /\ \/ /\ exit_stack' = [exit_stack EXCEPT !.items = Append(@, "transport")]
          /\ opened' = opened \cup {<<exit_stack.id, "transport">>}
          /\ pc' = [pc EXCEPT ![h] = "c_session"]
          /\ call' = [call EXCEPT ![h].io = TRUE]
          /\ UNCHANGED <<connected, loopOwner>>
       \/ /\ ConnectFailed(h, "sse")
          /\ UNCHANGED <<exit_stack, opened>>
    /\ UNCHANGED <<session, tools, nStacks, relCount, listed, nz, lp>>

\* lines 37-39: self.session is assigned only when entering succeeds
ConnectOpenSession(h) ==
    /\ pc[h] = "c_session"
    /\ \/ /\ exit_stack' = [exit_stack EXCEPT !.items = Append(@, "session")]
          /\ opened' = opened \cup {<<exit_stack.id, "session">>}
          /\ session' = exit_stack.id
          /\ pc' = [pc EXCEPT ![h] = "c_init"]
          /\ UNCHANGED <<connected, loopOwner, call>>
       \/ /\ ConnectFailed(h, "session")
          /\ UNCHANGED <<exit_stack, opened, session>>
    /\ UNCHANGED <<tools, nStacks, relCount, listed, nz, lp>>

\* line 40
ConnectInitialize(h) ==
    /\ pc[h] = "c_init"
    /\ \/ /\ pc' = [pc EXCEPT ![h] = "c_list"]
          /\ UNCHANGED <<connected, loopOwner, call>>
       \/ ConnectFailed(h, "initialize")
    /\ UNCHANGED <<exit_stack, session, tools, history, nz, lp>>

\* a slip: the new list is added to the cached one
MergeTools(ts) == tools \o ts

\* line 44: self.tools = response.tools
CacheTools(ts) == ts

\* lines 43-44: the cached list is overwritten by the one the server returns
ConnectListTools(h) ==
    /\ pc[h] = "c_list"
    /\ \/ /\ \E ts \in ToolLists :
                /\ tools' = CacheTools(ts)
                /\ listed' = [id |-> session, tools |-> ts]
          /\ pc' = [pc EXCEPT ![h] = "c_mark"]
          /\ UNCHANGED <<connected, loopOwner, call>>
       \/ /\ ConnectFailed(h, "list_tools")
          /\ UNCHANGED <<tools, listed>>
    /\ UNCHANGED <<exit_stack, session, nStacks, opened, relCount, nz, lp>>

\* line 46
ConnectMark(h) ==
    /\ pc[h] = "c_mark"
    /\ connected' = TRUE
    /\ pc' = [pc EXCEPT ![h] = "c_names"]
    /\ UNCHANGED <<exit_stack, session, tools, loopOwner, call, history, nz, lp>>

\* lines 47-48: reading a name may raise, after connected was set
ConnectNames(h) ==
    /\ pc[h] = "c_names"
    /\ IF \A i \in 1..Len(tools) : tools[i].has_name
       THEN /\ Finish(h, Returned(ConnectedMsg(tools)))
            /\ loopOwner' = NoOwner
            /\ UNCHANGED connected
       ELSE ConnectFailed(h, "names")
    /\ UNCHANGED <<exit_stack, session, tools, history, nz, lp>>

\* a slip: the guard asks whether a session object exists
IsConnectedBySession == session # 0

\* line 56: self.connected
IsConnected == connected

\* lines 54-60: the two precondition checks, before the loop is touched
GetWeatherCall(h, location) ==
    /\ h \in WeatherHandlers
    /\ pc[h] = "idle"
    /\ IF ~IsConnected
       THEN /\ pc' = [pc EXCEPT ![h] = "returned"]
            /\ call' = [call EXCEPT ![h].blank = IsBlank(location),
                                    ![h].connAtCall = connected,
                                    ![h].ret = Returned(NotConnectedMsg)]
       ELSE IF strip(location) = <<>>
       THEN /\ pc' = [pc EXCEPT ![h] = "returned"]
            /\ call' = [call EXCEPT ![h].blank = IsBlank(location),
                                    ![h].connAtCall = connected,
                                    ![h].ret = Returned(EmptyInputMsg)]
       ELSE /\ pc' = [pc EXCEPT ![h] = "gw_run"]
            /\ call' = [call EXCEPT ![h].location = location,
                                    ![h].blank = IsBlank(location),
                                    ![h].connAtCall = connected]
    /\ UNCHANGED <<client, loopOwner, history, nz, lp>>

\* the coroutine ends and run_until_complete returns its value
Complete(h, text) ==
    /\ pc' = [pc EXCEPT ![h] = "returned"]
    /\ call' = [call EXCEPT ![h].ret = Returned(text),
                            ![h].location = <<>>,
                            ![h].tool = "",
                            ![h].params = NoParams]
    /\ loopOwner' = NoOwner

\* line 62: get_weather() hands _get_weather() to the loop
GetWeatherRun(h) ==
    /\ pc[h] = "gw_run"
    /\ IF LoopRunning
       THEN /\ Finish(h, Raised(LoopRunningError))
            /\ UNCHANGED loopOwner
       ELSE /\ pc' = [pc EXCEPT ![h] = "w_find"]
            /\ loopOwner' = h
            /\ UNCHANGED call
    /\ UNCHANGED <<client, history, nz, lp>>

\* lines 66-80: the location is parsed, the weather tool is looked up and
\* call_tool(weather_tool.name, params) goes out on self.session
WeatherFind(h) ==
    /\ pc[h] = "w_find"
    /\ LET t == FindWeatherTool(tools)
       IN  IF t.raised THEN Complete(h, FailedMsg(NoNameAttr))
           ELSE IF ~t.found THEN Complete(h, ToolNotFoundMsg)
           ELSE /\ pc' = [pc EXCEPT ![h] = "w_wait"]
                /\ call' = [call EXCEPT ![h].tool = t.name,
                                        ![h].params = ParseLocation(call[h].location),
                                        ![h].io = TRUE]
                /\ UNCHANGED loopOwner
    /\ UNCHANGED <<client, history, nz, lp>>

\* the session object is entered and not exited
SessionLive ==
    /\ session # 0
    /\ <<session, "session">> \in opened
    /\ relCount[<<session, "session">>] = 0
    /\ relCount[<<session, "transport">>] = 0

\* lines 80-135: the awaited call raises or answers, and the answer is
\* normalised; a call on an exited session raises
WeatherAnswer(h) ==
    /\ pc[h] = "w_wait"
    /\ \/ Complete(h, FailedMsg("call failed"))
       \/ /\ SessionLive
          /\ \E result \in ServerResults : Complete(h, Normalize(result))
    /\ UNCHANGED <<client, history, nz, lp>>

\* the display layer shows the outcome; the listener is free again
Ack(h) ==
    /\ pc[h] = "returned"
    /\ pc' = [pc EXCEPT ![h] = "idle"]
    /\ call' = [call EXCEPT ![h] = IdleCall]
    /\ UNCHANGED <<client, loopOwner, history, nz, lp>>

Next ==
    \/ \E h \in Handlers : ConnectCall(h)
    \/ \E h \in Handlers : ConnectClose(h)
    \/ \E h \in Handlers : ConnectNewStack(h)
    \/ \E h \in Handlers : ConnectOpenTransport(h)
    \/ \E h \in Handlers : ConnectOpenSession(h)
    \/ \E h \in Handlers : ConnectInitialize(h)
    \/ \E h \in Handlers : ConnectListTools(h)
    \/ \E h \in Handlers : ConnectMark(h)
    \/ \E h \in Handlers : ConnectNames(h)
    \/ \E h \in Handlers, location \in EventLocations : GetWeatherCall(h, location)
    \/ \E h \in Handlers : GetWeatherRun(h)
    \/ \E h \in Handlers : WeatherFind(h)
    \/ \E h \in Handlers : WeatherAnswer(h)
    \/ \E h \in Handlers : Ack(h)

Spec == Init /\ [][Next]_vars

(***************************************************************************)
(* The normaliser on its own (lines 82-132): every result in Results is    *)
(* extracted, then formatted.                                              *)
(***************************************************************************)
lifecycle == <<connected, exit_stack, session, tools, loopOwner, pc, call,
               nStacks, opened, relCount, listed>>

InitNormalize ==
    /\ LifecycleInit
    /\ lp = LpOff
    /\ nz \in {[phase |-> "result", result |-> r, text |-> "", out |-> ""] : r \in Results}

\* lines 82-96
NzExtract ==
    /\ nz.phase = "result"
    /\ nz' = [nz EXCEPT !.phase = "text", !.text = ExtractContent(nz.result)]
    /\ UNCHANGED <<lifecycle, lp>>

\* lines 98-132
NzFormat ==
    /\ nz.phase = "text"
    /\ nz' = [nz EXCEPT !.phase = "done", !.out = FormatContent(nz.text)]
    /\ UNCHANGED <<lifecycle, lp>>

NextNormalize == NzExtract \/ NzFormat

SpecNormalize == InitNormalize /\ [][NextNormalize]_vars

(***************************************************************************)
(* The location parser on its own (lines 59-60 and 66-79), for a connected *)
(* client: a blank location is rejected, any other is parsed into the      *)
(* argument payload.                                                       *)
(***************************************************************************)
InitParse ==
    /\ LifecycleInit
    /\ nz = NzOff
    /\ lp \in {[phase |-> "input", location |-> l, params |-> NoParams] : l \in Locations}

\* lines 59-60
LpReject ==
    /\ lp.phase = "input"
    /\ strip(lp.location) = <<>>
    /\ lp' = [lp EXCEPT !.phase = "rejected"]
    /\ UNCHANGED <<lifecycle, nz>>

\* lines 66-79
LpParse ==
    /\ lp.phase = "input"
    /\ strip(lp.location) # <<>>
    /\ lp' = [lp EXCEPT !.phase = "sent", !.params = ParseLocation(lp.location)]
    /\ UNCHANGED <<lifecycle, nz>>

NextParse == LpReject \/ LpParse

SpecParse == InitParse /\ [][NextParse]_vars

(***************************************************************************)
(* Properties.                                                             *)
(***************************************************************************)
ConnectPcs == {"c_close", "c_newstack", "c_sse", "c_session", "c_init", "c_list",
               "c_mark", "c_names"}
WeatherPcs == {"gw_run", "w_find", "w_wait"}

\* the event listeners whose handler has been entered and has not ended
InProgress == {h \in Handlers : pc[h] \in ConnectPcs \cup WeatherPcs}

\* C1: a get_weather call made while connected is false returns the
\* not-connected message, whatever the location, and has made no call on
\* the transport or the session.
C1_NotConnectedFailsFast ==
    \A h \in WeatherHandlers :
        (pc[h] = "returned" /\ ~call[h].connAtCall)
            => /\ call[h].ret = Returned(NotConnectedMsg)
               /\ ~call[h].io

\* C1's case: the call is refused after a connect that succeeded was
\* followed by one that failed (a session object is still held).
C1_Witness ==
    \E h \in WeatherHandlers :
        /\ pc[h] = "returned"
        /\ ~call[h].connAtCall
        /\ call[h].ret = Returned(NotConnectedMsg)
        /\ session # 0
        /\ listed.id # 0
        /\ nStacks = 2

\* C2: a connect() that failed at any step has returned the
\* connection-failed string of that step's exception, and connected is false.
C2_FailedConnectLeavesDisconnected ==
    \A h \in ConnectHandlers :
        (pc[h] = "returned" /\ call[h].failed # "none")
            => /\ ~connected
               /\ call[h].failed \in ConnectSteps
               /\ call[h].ret = Returned(ConnectionFailedMsg(ErrText(call[h].failed)))

\* C2's case: the client was connected before the call, and the call failed
\* after line 46 had set connected again.
C2_Witness ==
    \E h \in ConnectHandlers :
        /\ pc[h] = "returned"
        /\ call[h].connAtCall
        /\ call[h].failed = "names"
        /\ ~connected

\* C3, as claimed: no handler invocation ends with an exception.
C3_NoExceptionEscapes ==
    \A h \in Handlers : pc[h] = "returned" => ~call[h].ret.raised

\* C4, as claimed: a get_weather call with a blank location returns the
\* empty-input message in every client state.
C4_BlankAlwaysEmptyInput ==
    \A h \in WeatherHandlers :
        (pc[h] = "returned" /\ call[h].blank)
            => /\ call[h].ret = Returned(EmptyInputMsg)
               /\ ~call[h].io

\* C4, amended: a get_weather call with a blank location never touches the
\* transport; it returns the empty-input message when the client is
\* connected and the not-connected message when it is not.
C4_BlankNeverReachesTransport ==
    \A h \in WeatherHandlers :
        (pc[h] \in {"returned"} \cup WeatherPcs /\ call[h].blank)
            => /\ pc[h] = "returned"
               /\ ~call[h].io
               /\ call[h].ret = IF call[h].connAtCall THEN Returned(EmptyInputMsg)
                                ELSE Returned(NotConnectedMsg)

\* C4's case: a blank location submitted to a connected client.
C4_Witness ==
    \E h \in WeatherHandlers :
        /\ pc[h] = "returned"
        /\ call[h].blank
        /\ call[h].connAtCall
        /\ call[h].ret = Returned(EmptyInputMsg)

\* C5, as claimed: a failing release of the previous connection never makes
\* connect() return a failure.
C5_ReleaseFailureSwallowed ==
    \A h \in ConnectHandlers : pc[h] = "returned" => call[h].failed # "close"

\* C6: every context that was opened is released at most once, none is
\* released unopened, at most one opened transport is unreleased, and every
\* context of an earlier stack was released exactly once by the time a later
\* stack holds an opened one.
C6_ReleasedOnceBeforeNextOpen ==
    /\ \A c \in Contexts : relCount[c] <= 1
    /\ \A c \in Contexts : relCount[c] > 0 => c \in opened
    /\ Cardinality({c \in opened : c[2] = "transport" /\ relCount[c] = 0}) <= 1
    /\ \A c \in opened, d \in opened : c[1] < d[1] => relCount[c] = 1

\* C6's case: two reconnects in a row; the first two connections were each
\* released once and the third is open.
C6_Witness ==
    /\ relCount[<<1, "transport">>] = 1
    /\ relCount[<<2, "transport">>] = 1
    /\ <<3, "transport">> \in opened
    /\ relCount[<<3, "transport">>] = 0

\* C7, as claimed: a handler runs to completion before the next one starts.
C7_OneOperationAtATime == Cardinality(InProgress) <= 1

\* C10: while connected is true and no connect() is running, the session
\* and the exit stack are those of the latest stack, entered and not
\* exited, and the cached tools are the list that session's list_tools gave.
C10_ConnectedMeansFreshSession ==
    (connected /\ \A h \in ConnectHandlers : pc[h] \notin ConnectPcs)
        => /\ nStacks > 0
           /\ exit_stack = [id |-> nStacks, items |-> <<"transport", "session">>]
           /\ session = nStacks
           /\ SessionLive
           /\ listed.id = session
           /\ tools = listed.tools

\* C10's case: connected again after a reconnect that replaced the session.
C10_Witness ==
    /\ connected
    /\ \A h \in ConnectHandlers : pc[h] \notin ConnectPcs
    /\ session = 2
    /\ relCount[<<1, "session">>] = 1
    /\ tools # <<>>

\* what is left of s between its first and its last non-space character
Trimmed(s) ==
    LET keep == {i \in 1..Len(s) : s[i] # " "}
    IN  IF keep = {} THEN <<>>
        ELSE SubSeq(s, CHOOSE i \in keep : \A j \in keep : i <= j,
                       CHOOSE i \in keep : \A j \in keep : i >= j)

CommasOf(s) == {i \in 1..Len(s) : s[i] = ","}

\* C9: the payload of a non-blank location is {city, country} with the
\* location cut at its first comma only: without a comma the city is the
\* trimmed location and the country is empty; with one, the city is the
\* trimmed text before the first comma and the country the trimmed text
\* after it, later commas included.
C9_PayloadSplitsOnFirstComma ==
    lp.phase = "sent" =>
        LET loc == lp.location
            commas == CommasOf(loc)
        IN  IF commas = {}
            THEN lp.params = [city |-> Trimmed(loc), country |-> <<>>]
            ELSE LET first == CHOOSE i \in commas : \A j \in commas : i <= j
                 IN  lp.params = [city |-> Trimmed(SubSeq(loc, 1, first - 1)),
                                  country |-> Trimmed(SubSeq(loc, first + 1, Len(loc)))]

\* C9's case: a location with two commas and a city, sent with the second
\* comma inside the country.
C9_Witness ==
    /\ lp.phase = "sent"
    /\ Cardinality(CommasOf(lp.location)) = 2
    /\ lp.params.city = <<"a">>
    /\ CommasOf(lp.params.country) # {}

IsObject(v) == v.t = "dict"
HasMember(v, key) == IsObject(v) /\ key \in {v.d[i].k : i \in 1..Len(v.d)}
Member(v, key) == v.d[CHOOSE i \in 1..Len(v.d) : v.d[i].k = key].v
FieldOr(v, key, default) == IF HasMember(v, key) THEN PyStr(Member(v, key)) ELSE default

\* the weather summary of rule (b), "N/A" for each sub-field not given
SummaryText(p) ==
    LET w == Member(p, "current_weather")
    IN  "[globe] **" \o FieldOr(p, "location", "Unknown") \o "**\n\n"
        \o "[temp] Temperature: " \o FieldOr(w, "temperature_celsius", "N/A") \o "degC\n"
        \o "[sky] Conditions: " \o FieldOr(w, "weather_description", "N/A") \o "\n"
        \o "[wind] Wind: " \o FieldOr(w, "wind_speed_kmh", "N/A") \o " km/h\n"
        \o "[drop] Humidity: " \o FieldOr(w, "humidity_percent", "N/A") \o "%\n"

\* the legacy summary of rule (c)
LegacyText(p) ==
    "[globe] **" \o FieldOr(p, "location", "Unknown") \o "**\n\n"
    \o "[temp] Temperature: " \o FieldOr(p, LegacyKey, "N/A") \o "degC\n"
    \o "[sky] Weather Code: " \o FieldOr(p, "weather_code", "N/A") \o "\n"
    \o "[clock] Timezone: " \o FieldOr(p, "timezone", "N/A") \o "\n"
    \o "[time] Local Time: " \o FieldOr(p, "local_time", "N/A") \o "\n"

\* C8, as claimed: rules (a) to (d) in order for every text that parses as
\* JSON, (d) for every parsed value no earlier rule takes; a plain code block
\* for a text that does not parse.
C8_RulesAsClaimed ==
    (nz.phase = "done" /\ nz.text # "") =>
        LET p == json_loads(nz.text)
        IN  nz.out = IF p = JSONDecodeError THEN PlainBlock(nz.text)
                     ELSE IF HasMember(p, "error") THEN ErrorMsg(PyStr(Member(p, "error")))
                     ELSE IF HasMember(p, "current_weather") THEN SummaryText(p)
                     ELSE IF HasMember(p, LegacyKey) THEN LegacyText(p)
                     ELSE JsonBlock(json_dumps(p))

\* C8, amended: rules (a) to (d) in order for every text that parses as a
\* JSON object, where (b) gives the summary when the "current_weather" value
\* is itself an object and the generic failure message when it is not; a
\* parsed JSON value that is no object is returned as the raw result, with
\* no code block; a text that does not parse is returned unchanged inside a
\* plain code block.
C8_RulesInOrder ==
    (nz.phase = "done" /\ nz.text # "") =>
        LET p == json_loads(nz.text)
        IN  nz.out = IF p = JSONDecodeError THEN PlainBlock(nz.text)
                     ELSE IF ~IsObject(p) THEN RawResult(nz.text)
                     ELSE IF HasMember(p, "error") THEN ErrorMsg(PyStr(Member(p, "error")))
                     ELSE IF HasMember(p, "current_weather")
                          THEN IF IsObject(Member(p, "current_weather")) THEN SummaryText(p)
                               ELSE FailedMsg(NoGetAttr(Member(p, "current_weather")))
                     ELSE IF HasMember(p, LegacyKey) THEN LegacyText(p)
                     ELSE JsonBlock(json_dumps(p))

\* C8's case: a payload with both "error" and "current_weather", delivered
\* in a list of two content items, gives the error message.
C8_Witness ==
    /\ nz.phase = "done"
    /\ Len(nz.result.items) = 2
    /\ HasMember(json_loads(nz.text), "error")
    /\ HasMember(json_loads(nz.text), "current_weather")
    /\ nz.out = ErrorMsg("rate limited")

====
